---- MODULE Spec2Model ----
(***************************************************************************)
(* Model of the location-sharing mediator (src/src/app.py).  Each Flask    *)
(* endpoint is one action that serves one request against the shared Db    *)
(* instance and produces one Response.  The Db class (db.py) is not part   *)
(* of the sources; its operations are modelled from section 4.1 of the     *)
(* specification (the Db_* operators).                                     *)
(***************************************************************************)
EXTENDS Integers, Sequences, FiniteSets, TLC

VARIABLES db, req, resp, threads, serial, look

vars == <<db, req, resp, threads, serial, look>>

(* the state of requests in flight on concurrent workers *)
concVars == <<threads, serial, look>>

-----------------------------------------------------------------------------
(* Bounds of the model *)

NumLocations == 2

-----------------------------------------------------------------------------
(* Inputs *)

(* the user names that appear in requests *)
Names == {"alice", "bob"}

(* request.args.get(k) is None when the parameter is absent *)
None == "<None>"

(* what request.args.get may return: a name, the empty string, or None *)
Args == Names \cup {"", None}

(* request.json / a stored location that is None *)
NoneJson == [null |-> TRUE]

(* location payloads: GPS variants (latitude, longitude) and indoor variants *)
LocationPool ==
    << [lat |-> 34, lng |-> -118],
       [building |-> "BH", floor |-> 3, room |-> "3400"],
       [lat |-> 40, lng |-> -74],
       [building |-> "MS", floor |-> 5, room |-> "5200"],
       [lat |-> 0, lng |-> 0] >>

Locations == {LocationPool[i] : i \in 1..NumLocations}

(* what request.json may be *)
JsonBodies == Locations \cup {NoneJson}

-----------------------------------------------------------------------------
(* Python helpers *)

(* truthiness of a request argument: `not x` holds for None and "" *)
Falsy(x) == x = None \/ x = ""

(* json.dumps of a location payload; floats print with their fraction *)
json_dumps(location) ==
    IF location = NoneJson THEN "null"
    ELSE IF "lat" \in DOMAIN location
    THEN "{\"lat\": " \o ToString(location.lat) \o ".0, \"lng\": "
         \o ToString(location.lng) \o ".0}"
    ELSE "{\"building\": \"" \o location.building \o "\", \"floor\": "
         \o ToString(location.floor) \o ", \"room\": \"" \o location.room \o "\"}"

Response(body, status) == [body |-> body, status |-> status]

-----------------------------------------------------------------------------
(* The Directory (class Db), modelled from the specification, section 4.1. *)
(* A directory d is a function from the existing user names to records.    *)

DefaultToggle == TRUE

NewUser == [friends_list |-> {}, location |-> NoneJson, toggle |-> DefaultToggle]

user_exists(d, user) == user \in DOMAIN d

Db_add_user(d, name) ==
    IF user_exists(d, name)
    THEN [res |-> FALSE, db |-> d]
    ELSE [res |-> TRUE,
          db  |-> [u \in DOMAIN d \cup {name} |-> IF u = name THEN NewUser ELSE d[u]]]

Db_add_friend(d, user, friend) ==
    IF ~user_exists(d, user)
    THEN [res |-> FALSE, db |-> d]
    ELSE [res |-> TRUE,
          db  |-> [d EXCEPT ![user].friends_list = @ \cup {friend}]]

Db_delete_friend(d, user, friend) ==
    IF ~user_exists(d, user) \/ friend \notin d[user].friends_list
    THEN [res |-> FALSE, db |-> d]
    ELSE [res |-> TRUE,
          db  |-> [d EXCEPT ![user].friends_list = @ \ {friend}]]

Db_set_location(d, user, location) ==
    IF ~user_exists(d, user)
    THEN [res |-> FALSE, db |-> d]
    ELSE [res |-> TRUE, db |-> [d EXCEPT ![user].location = location]]

Db_get_location(d, user) ==
    IF user_exists(d, user) THEN d[user].location ELSE NoneJson

(* absent is modelled by the flag `none`; the list is then irrelevant *)
Db_get_friends_list(d, user) ==
    IF user_exists(d, user)
    THEN [none |-> FALSE, list |-> d[user].friends_list]
    ELSE [none |-> TRUE, list |-> {}]

(* "None", "True" or "False" *)
Db_location_available(d, user) ==
    IF ~user_exists(d, user) THEN "None"
    ELSE IF d[user].toggle THEN "True" ELSE "False"

Db_toggle(d, user) ==
    IF ~user_exists(d, user)
    THEN [res |-> FALSE, db |-> d]
    ELSE [res |-> TRUE, db |-> [d EXCEPT ![user].toggle = ~@]]

-----------------------------------------------------------------------------
(* The endpoints of app.py *)

Request(op, user_name, friend_name, json) ==
    [op |-> op, user_name |-> user_name, friend_name |-> friend_name, json |-> json]

(* add_user ignoring the result of db.add_user *)
add_user_ignores_added(user_name) ==
    /\ req' = Request("addUser", user_name, None, NoneJson)
    /\ IF Falsy(user_name)
       THEN /\ resp' = Response("Must provide user name", 400)
            /\ db' = db
       ELSE LET added == Db_add_user(db, user_name)
            IN  /\ db' = added.db
                /\ resp' = Response("Signed up!", 200)

add_user(user_name) ==
    /\ req' = Request("addUser", user_name, None, NoneJson)
    /\ IF Falsy(user_name)
       THEN /\ resp' = Response("Must provide user name", 400)
            /\ db' = db
       ELSE LET added == Db_add_user(db, user_name)
            IN  /\ db' = added.db
                /\ resp' = IF added.res
                           THEN Response("Signed up!", 200)
                           ELSE Response("User already exists", 400)

(* add_friend calling db.add_friend before the parameters are validated *)
add_friend_validates_late(user_name, friend_name) ==
    /\ req' = Request("addFriend", user_name, friend_name, NoneJson)
    /\ LET res == Db_add_friend(db, user_name, friend_name)
       IN  /\ db' = res.db
           /\ resp' = IF ~res.res
                      THEN Response("Cannot add friend to user's friends list, user does not exist", 400)
                      ELSE IF Falsy(user_name) \/ Falsy(friend_name)
                      THEN Response("Must provide user name and friend name", 400)
                      ELSE Response("Added!", 200)

(* add_friend that also enters the user into the friend's list *)
add_friend_symmetric(user_name, friend_name) ==
    /\ req' = Request("addFriend", user_name, friend_name, NoneJson)
    /\ IF Falsy(user_name) \/ Falsy(friend_name)
       THEN /\ resp' = Response("Must provide user name and friend name", 400)
            /\ db' = db
       ELSE LET res == Db_add_friend(db, user_name, friend_name)
            IN  /\ db' = IF res.res
                         THEN Db_add_friend(res.db, friend_name, user_name).db
                         ELSE res.db
                /\ resp' = IF res.res
                           THEN Response("Added!", 200)
                           ELSE Response("Cannot add friend to user's friends list, user does not exist", 400)

(* add_friend that also requires the friend to be a registered user *)
add_friend_checks_friend(user_name, friend_name) ==
    /\ req' = Request("addFriend", user_name, friend_name, NoneJson)
    /\ IF Falsy(user_name) \/ Falsy(friend_name)
       THEN /\ resp' = Response("Must provide user name and friend name", 400)
            /\ db' = db
       ELSE LET res == IF user_exists(db, friend_name)
                       THEN Db_add_friend(db, user_name, friend_name)
                       ELSE [res |-> FALSE, db |-> db]
            IN  /\ db' = res.db
                /\ resp' = IF res.res
                           THEN Response("Added!", 200)
                           ELSE Response("Cannot add friend to user's friends list, user does not exist", 400)

add_friend(user_name, friend_name) ==
    /\ req' = Request("addFriend", user_name, friend_name, NoneJson)
    /\ IF Falsy(user_name) \/ Falsy(friend_name)
       THEN /\ resp' = Response("Must provide user name and friend name", 400)
            /\ db' = db
       ELSE LET res == Db_add_friend(db, user_name, friend_name)
            IN  /\ db' = res.db
                /\ resp' = IF res.res
                           THEN Response("Added!", 200)
                           ELSE Response("Cannot add friend to user's friends list, user does not exist", 400)

(* delete_friend ignoring the result of db.delete_friend *)
delete_friend_ignores_res(user_name, friend_name) ==
    /\ req' = Request("deleteFriend", user_name, friend_name, NoneJson)
    /\ IF Falsy(user_name) \/ Falsy(friend_name)
       THEN /\ resp' = Response("Must provide user name and friend name", 400)
            /\ db' = db
       ELSE LET res == Db_delete_friend(db, user_name, friend_name)
            IN  /\ db' = res.db
                /\ resp' = Response("Removed!", 200)

delete_friend(user_name, friend_name) ==
    /\ req' = Request("deleteFriend", user_name, friend_name, NoneJson)
    /\ IF Falsy(user_name) \/ Falsy(friend_name)
       THEN /\ resp' = Response("Must provide user name and friend name", 400)
            /\ db' = db
       ELSE LET res == Db_delete_friend(db, user_name, friend_name)
            IN  /\ db' = res.db
                /\ resp' = IF res.res
                           THEN Response("Removed!", 200)
                           ELSE Response("Friend does not exist", 400)

(* register with the test of res inverted *)
register_inverted(user_name, location) ==
    /\ req' = Request("registerLocation", user_name, None, location)
    /\ LET res == Db_set_location(db, user_name, location)
       IN  /\ db' = res.db
           /\ resp' = IF ~res.res
                      THEN Response("Updated!", 200)
                      ELSE Response("No such user", 400)

register(user_name, location) ==
    /\ req' = Request("registerLocation", user_name, None, location)
    /\ LET res == Db_set_location(db, user_name, location)
       IN  /\ db' = res.db
           /\ resp' = IF res.res
                      THEN Response("Updated!", 200)
                      ELSE Response("No such user", 400)

(* lookup_response with the friend-list fetch placed before the friend_name check *)
lookup_response_requester_first(d, user_name, friend_name) ==
    LET friends_list == Db_get_friends_list(d, user_name)
        is_available == Db_location_available(d, user_name)
        location     == Db_get_location(d, friend_name)
    IN  IF friends_list.none
        THEN Response("No such user", 400)
        ELSE IF Falsy(friend_name)
        THEN Response("Must provide a friend name", 400)
        ELSE IF is_available = "False"
        THEN Response("Friend has location toggled off", 401)
        ELSE IF friend_name \notin friends_list.list
        THEN Response("Not authroized to view this user's location", 401)
        ELSE IF location = NoneJson
        THEN Response("No such user", 400)
        ELSE Response(json_dumps(location), 200)

(* lookup_response without the friend-list membership check *)
lookup_response_no_friend_check(d, user_name, friend_name) ==
    IF Falsy(friend_name)
    THEN Response("Must provide a friend name", 400)
    ELSE LET friends_list == Db_get_friends_list(d, user_name)
             is_available == Db_location_available(d, user_name)
             location     == Db_get_location(d, friend_name)
         IN  IF friends_list.none
             THEN Response("No such user", 400)
             ELSE IF is_available = "False"
             THEN Response("Friend has location toggled off", 401)
             ELSE IF location = NoneJson
             THEN Response("No such user", 400)
             ELSE Response(json_dumps(location), 200)

(* lookup_response consulting the friend's toggle instead of the user's *)
lookup_response_friend_toggle(d, user_name, friend_name) ==
    IF Falsy(friend_name)
    THEN Response("Must provide a friend name", 400)
    ELSE LET friends_list == Db_get_friends_list(d, user_name)
             is_available == Db_location_available(d, friend_name)
             location     == Db_get_location(d, friend_name)
         IN  IF friends_list.none
             THEN Response("No such user", 400)
             ELSE IF is_available = "False"
             THEN Response("Friend has location toggled off", 401)
             ELSE IF friend_name \notin friends_list.list
             THEN Response("Not authroized to view this user's location", 401)
             ELSE IF location = NoneJson
             THEN Response("No such user", 400)
             ELSE Response(json_dumps(location), 200)

(* lookup_response without the `location is None` check *)
lookup_response_no_none_check(d, user_name, friend_name) ==
    IF Falsy(friend_name)
    THEN Response("Must provide a friend name", 400)
    ELSE LET friends_list == Db_get_friends_list(d, user_name)
             is_available == Db_location_available(d, user_name)
             location     == Db_get_location(d, friend_name)
         IN  IF friends_list.none
             THEN Response("No such user", 400)
             ELSE IF is_available = "False"
             THEN Response("Friend has location toggled off", 401)
             ELSE IF friend_name \notin friends_list.list
             THEN Response("Not authroized to view this user's location", 401)
             ELSE Response(json_dumps(location), 200)

(* lookup_response fetching the location of the requesting user *)
lookup_response_own_location(d, user_name, friend_name) ==
    IF Falsy(friend_name)
    THEN Response("Must provide a friend name", 400)
    ELSE LET friends_list == Db_get_friends_list(d, user_name)
             is_available == Db_location_available(d, user_name)
             location     == Db_get_location(d, user_name)
         IN  IF friends_list.none
             THEN Response("No such user", 400)
             ELSE IF is_available = "False"
             THEN Response("Friend has location toggled off", 401)
             ELSE IF friend_name \notin friends_list.list
             THEN Response("Not authroized to view this user's location", 401)
             ELSE IF location = NoneJson
             THEN Response("No such user", 400)
             ELSE Response(json_dumps(location), 200)

(* the Response lookup_loc computes over directory d *)
lookup_response(d, user_name, friend_name) ==
    IF Falsy(friend_name)
    THEN Response("Must provide a friend name", 400)
    ELSE LET friends_list == Db_get_friends_list(d, user_name)
             is_available == Db_location_available(d, user_name)
             location     == Db_get_location(d, friend_name)
         IN  IF friends_list.none
             THEN Response("No such user", 400)
             ELSE IF is_available = "False"
             THEN Response("Friend has location toggled off", 401)
             ELSE IF friend_name \notin friends_list.list
             THEN Response("Not authroized to view this user's location", 401)
             ELSE IF location = NoneJson
             THEN Response("No such user", 400)
             ELSE Response(json_dumps(location), 200)

(* lookup_loc that registers an unknown requester on the way *)
lookup_loc_upserts(user_name, friend_name) ==
    /\ req' = Request("lookup", user_name, friend_name, NoneJson)
    /\ resp' = lookup_response(db, user_name, friend_name)
    /\ db' = IF Falsy(user_name) \/ Falsy(friend_name)
             THEN db
             ELSE Db_add_user(db, user_name).db

lookup_loc(user_name, friend_name) ==
    /\ req' = Request("lookup", user_name, friend_name, NoneJson)
    /\ resp' = lookup_response(db, user_name, friend_name)
    /\ db' = db

(* toggle_loc flipping the toggle of every user *)
toggle_loc_all_users(user_name) ==
    /\ req' = Request("toggle", user_name, None, NoneJson)
    /\ IF Falsy(user_name)
       THEN /\ resp' = Response("Must provide a user name", 400)
            /\ db' = db
       ELSE LET res == Db_toggle(db, user_name)
            IN  /\ db' = IF res.res
                         THEN [u \in DOMAIN db |-> [db[u] EXCEPT !.toggle = ~@]]
                         ELSE db
                /\ resp' = IF ~res.res
                           THEN Response("User doesn't exist", 400)
                           ELSE Response("Toggled!", 200)

(* toggle_loc calling db.toggle a second time on success *)
toggle_loc_twice(user_name) ==
    /\ req' = Request("toggle", user_name, None, NoneJson)
    /\ IF Falsy(user_name)
       THEN /\ resp' = Response("Must provide a user name", 400)
            /\ db' = db
       ELSE LET res == Db_toggle(db, user_name)
            IN  /\ db' = Db_toggle(res.db, user_name).db
                /\ resp' = IF ~res.res
                           THEN Response("User doesn't exist", 400)
                           ELSE Response("Toggled!", 200)

toggle_loc(user_name) ==
    /\ req' = Request("toggle", user_name, None, NoneJson)
    /\ IF Falsy(user_name)
       THEN /\ resp' = Response("Must provide a user name", 400)
            /\ db' = db
       ELSE LET res == Db_toggle(db, user_name)
            IN  /\ db' = res.db
                /\ resp' = IF ~res.res
                           THEN Response("User doesn't exist", 400)
                           ELSE Response("Toggled!", 200)

-----------------------------------------------------------------------------

(* Requests in flight.  The endpoints are served by worker threads that    *)
(* share the one Db instance; a request is received (arguments read and    *)
(* validated), makes its call on the Directory, and returns.               *)

Workers == {"w1", "w2"}

IdleThread == [pc |-> "idle", request |-> Request("none", None, None, NoneJson),
               resp |-> Response("", 0)]

(* the mutating requests that pass validation *)
MutatingRequests ==
    {Request("addUser", u, None, NoneJson) : u \in Names}
    \cup {Request("addFriend", u, f, NoneJson) : u \in Names, f \in Names}
    \cup {Request("deleteFriend", u, f, NoneJson) : u \in Names, f \in Names}
    \cup {Request("registerLocation", u, None, l) : u \in Names, l \in Locations}
    \cup {Request("toggle", u, None, NoneJson) : u \in Names}

(* the one call a mutating endpoint makes on the Directory *)
DirectoryCall(d, r) ==
    CASE r.op = "addUser"          -> Db_add_user(d, r.user_name)
      [] r.op = "addFriend"        -> Db_add_friend(d, r.user_name, r.friend_name)
      [] r.op = "deleteFriend"     -> Db_delete_friend(d, r.user_name, r.friend_name)
      [] r.op = "registerLocation" -> Db_set_location(d, r.user_name, r.json)
      [] r.op = "toggle"           -> Db_toggle(d, r.user_name)

(* the Response a mutating endpoint builds from the result of its call *)
CallResponse(r, res) ==
    CASE r.op = "addUser" ->
            IF res THEN Response("Signed up!", 200)
            ELSE Response("User already exists", 400)
      [] r.op = "addFriend" ->
            IF res THEN Response("Added!", 200)
            ELSE Response("Cannot add friend to user's friends list, user does not exist", 400)
      [] r.op = "deleteFriend" ->
            IF res THEN Response("Removed!", 200)
            ELSE Response("Friend does not exist", 400)
      [] r.op = "registerLocation" ->
            IF res THEN Response("Updated!", 200)
            ELSE Response("No such user", 400)
      [] r.op = "toggle" ->
            IF ~res THEN Response("User doesn't exist", 400)
            ELSE Response("Toggled!", 200)

(* the Directory after request r is executed alone on directory d *)
SerialEffect(d, r) ==
    LET u == r.user_name
        f == r.friend_name
    IN  CASE r.op = "addUser" ->
                IF u \in DOMAIN d THEN d
                ELSE [v \in DOMAIN d \cup {u} |-> IF v = u THEN NewUser ELSE d[v]]
          [] r.op = "addFriend" ->
                IF u \in DOMAIN d
                THEN [d EXCEPT ![u].friends_list = @ \cup {f}] ELSE d
          [] r.op = "deleteFriend" ->
                IF u \in DOMAIN d
                THEN [d EXCEPT ![u].friends_list = @ \ {f}] ELSE d
          [] r.op = "registerLocation" ->
                IF u \in DOMAIN d THEN [d EXCEPT ![u].location = r.json] ELSE d
          [] r.op = "toggle" ->
                IF u \in DOMAIN d THEN [d EXCEPT ![u].toggle = ~@] ELSE d

(* worker w takes a request: request.args.get / request.json are read and  *)
(* validated; nothing shared is touched                                    *)
thread_receive(w, r) ==
    /\ threads[w].pc = "idle"
    /\ threads' = [threads EXCEPT ![w] = [pc |-> "call", request |-> r,
                                          resp |-> Response("", 0)]]
    /\ UNCHANGED <<db, req, resp, serial, look>>

(* thread_call with the call of delete_friend copied from add_friend *)
thread_call_delete_adds(w) ==
    /\ threads[w].pc = "call"
    /\ LET r   == threads[w].request
           res == IF r.op = "deleteFriend"
                  THEN Db_add_friend(db, r.user_name, r.friend_name)
                  ELSE DirectoryCall(db, r)
       IN  /\ db' = res.db
           /\ serial' = SerialEffect(serial, r)
           /\ threads' = [threads EXCEPT ![w] = [pc |-> "done", request |-> r,
                                                 resp |-> CallResponse(r, res.res)]]
    /\ UNCHANGED <<req, resp, look>>

(* worker w makes the Directory call of its request and builds the         *)
(* Response; `serial` follows the requests in the order of their calls     *)
thread_call(w) ==
    /\ threads[w].pc = "call"
    /\ LET r   == threads[w].request
           res == DirectoryCall(db, r)
       IN  /\ db' = res.db
           /\ serial' = SerialEffect(serial, r)
           /\ threads' = [threads EXCEPT ![w] = [pc |-> "done", request |-> r,
                                                 resp |-> CallResponse(r, res.res)]]
    /\ UNCHANGED <<req, resp, look>>

(* worker w returns its Response and is free again *)
thread_return(w) ==
    /\ threads[w].pc = "done"
    /\ threads' = [threads EXCEPT ![w] = IdleThread]
    /\ UNCHANGED <<db, req, resp, serial, look>>

(* no lookup in progress *)
IdleLookup == [pc |-> "idle", user_name |-> None, friend_name |-> None,
               friends_list |-> {}, resp |-> Response("", 0), instants |-> {}]

(* A lookup in flight: lookup_loc makes three separate calls on the         *)
(* Directory, and requests of other workers may be served between them.    *)

(* the locations L for which, in directory d, f is in u's friend set, u's  *)
(* toggle is not false and L is f's stored location                        *)
DisclosableNow(d, u, f) ==
    IF u \in DOMAIN d /\ f \in DOMAIN d /\ f \in d[u].friends_list /\ d[u].toggle
    THEN {d[f].location}
    ELSE {}

LookupDone(r) == [look EXCEPT !.pc = "done", !.resp = r]

(* user_name and friend_name are read; a missing friend_name is answered   *)
lookup_receive(user_name, friend_name) ==
    /\ look.pc = "idle"
    /\ look' = IF Falsy(friend_name)
               THEN [IdleLookup EXCEPT !.pc = "done",
                                       !.user_name = user_name,
                                       !.friend_name = friend_name,
                                       !.resp = Response("Must provide a friend name", 400)]
               ELSE [IdleLookup EXCEPT !.pc = "get_friends_list",
                                       !.user_name = user_name,
                                       !.friend_name = friend_name,
                                       !.instants = DisclosableNow(db, user_name, friend_name)]
    /\ UNCHANGED <<db, req, resp, threads, serial>>

(* friends_list = db.get_friends_list(user_name) *)
lookup_get_friends_list ==
    /\ look.pc = "get_friends_list"
    /\ LET friends_list == Db_get_friends_list(db, look.user_name)
       IN  look' = IF friends_list.none
                   THEN LookupDone(Response("No such user", 400))
                   ELSE [look EXCEPT !.pc = "location_available",
                                     !.friends_list = friends_list.list]
    /\ UNCHANGED <<db, req, resp, threads, serial>>

(* is_available = db.location_available(user_name), then the membership    *)
(* test on the friends_list fetched before                                 *)
lookup_location_available ==
    /\ look.pc = "location_available"
    /\ LET is_available == Db_location_available(db, look.user_name)
       IN  look' = IF is_available = "False"
                   THEN LookupDone(Response("Friend has location toggled off", 401))
                   ELSE IF look.friend_name \notin look.friends_list
                   THEN LookupDone(Response("Not authroized to view this user's location", 401))
                   ELSE [look EXCEPT !.pc = "get_location"]
    /\ UNCHANGED <<db, req, resp, threads, serial>>

(* location = db.get_location(friend_name) *)
lookup_get_location ==
    /\ look.pc = "get_location"
    /\ LET location == Db_get_location(db, look.friend_name)
       IN  look' = IF location = NoneJson
                   THEN LookupDone(Response("No such user", 400))
                   ELSE LookupDone(Response(json_dumps(location), 200))
    /\ UNCHANGED <<db, req, resp, threads, serial>>

(* the Response is returned *)
lookup_return ==
    /\ look.pc = "done"
    /\ look' = IdleLookup
    /\ UNCHANGED <<db, req, resp, threads, serial>>

(* another worker serves mutating request r: its one Directory call *)
directory_request(r) ==
    /\ db' = DirectoryCall(db, r).db
    /\ look' = IF look.pc \in {"idle", "done"}
               THEN look
               ELSE [look EXCEPT !.instants =
                        @ \cup DisclosableNow(db', look.user_name, look.friend_name)]
    /\ UNCHANGED <<req, resp, threads, serial>>

-----------------------------------------------------------------------------

(* db = Db(): an empty directory; no request served yet *)
Init ==
    /\ db = [u \in {} |-> NewUser]
    /\ req = Request("none", None, None, NoneJson)
    /\ resp = Response("", 0)
    /\ threads = [w \in Workers |-> IdleThread]
    /\ serial = [u \in {} |-> NewUser]
    /\ look = IdleLookup

(* requests served one at a time *)
Next ==
    \/ \E u \in Args : add_user(u) /\ UNCHANGED concVars
    \/ \E u \in Args, f \in Args : add_friend(u, f) /\ UNCHANGED concVars
    \/ \E u \in Args, f \in Args : delete_friend(u, f) /\ UNCHANGED concVars
    \/ \E u \in Args, l \in JsonBodies : register(u, l) /\ UNCHANGED concVars
    \/ \E u \in Args, f \in Args : lookup_loc(u, f) /\ UNCHANGED concVars
    \/ \E u \in Args : toggle_loc(u) /\ UNCHANGED concVars

Spec == Init /\ [][Next]_vars

(* mutating requests served concurrently by the workers *)
NextMut ==
    \/ \E w \in Workers, r \in MutatingRequests : thread_receive(w, r)
    \/ \E w \in Workers : thread_call(w)
    \/ \E w \in Workers : thread_return(w)

SpecMut == Init /\ [][NextMut]_vars

(* one lookup in flight while other workers serve mutating requests *)
NextLookup ==
    \/ \E u \in Args, f \in Args : lookup_receive(u, f)
    \/ lookup_get_friends_list
    \/ lookup_location_available
    \/ lookup_get_location
    \/ lookup_return
    \/ \E r \in MutatingRequests : directory_request(r)

SpecLookup == Init /\ [][NextLookup]_vars

TypeOK ==
    /\ DOMAIN db \subseteq Names
    /\ \A u \in DOMAIN db :
          /\ db[u].friends_list \subseteq Names
          /\ db[u].location \in JsonBodies
          /\ db[u].toggle \in BOOLEAN
-----------------------------------------------------------------------------
(* Outcome kinds of the error taxonomy, read off the Response *)

Success(r) == r.status = 200

MissingParameter(r) ==
    /\ r.status = 400
    /\ r.body \in {"Must provide user name",
                   "Must provide user name and friend name",
                   "Must provide a friend name",
                   "Must provide a user name"}

AlreadyExists(r) == r.status = 400 /\ r.body = "User already exists"

NoSuchUser(r) ==
    /\ r.status = 400
    /\ r.body \in {"No such user",
                   "Cannot add friend to user's friends list, user does not exist",
                   "User doesn't exist"}

EdgeNotFound(r) == r.status = 400 /\ r.body = "Friend does not exist"

AccessDeniedToggleOff(r) ==
    r.status = 401 /\ r.body = "Friend has location toggled off"

AccessDeniedNotAuthorized(r) ==
    r.status = 401 /\ r.body = "Not authroized to view this user's location"

(* the request just served is a lookup by r for t *)
LookedUp(r, t) == req.op = "lookup" /\ req.user_name = r /\ req.friend_name = t

-----------------------------------------------------------------------------
(* C1: a lookup surfaces the outcome of the first failing check in the     *)
(* order: target absent/empty -> MissingParameter; requester not in the    *)
(* Directory -> NoSuchUser; requester's toggle false -> AccessDenied       *)
(* (toggle off); target not in requester's friend set -> AccessDenied (not *)
(* authorized); target without stored location -> NoSuchUser; otherwise    *)
(* success with the target's stored location.                              *)
LookupCheckOrder ==
    \A r \in Args, t \in Args :
        LookedUp(r, t) =>
            IF t = None \/ t = ""
            THEN MissingParameter(resp)
            ELSE IF r \notin DOMAIN db
            THEN NoSuchUser(resp)
            ELSE IF db[r].toggle = FALSE
            THEN AccessDeniedToggleOff(resp)
            ELSE IF t \notin db[r].friends_list
            THEN AccessDeniedNotAuthorized(resp)
            ELSE IF t \notin DOMAIN db \/ db[t].location = NoneJson
            THEN NoSuchUser(resp)
            ELSE resp = Response(json_dumps(db[t].location), 200)

(* an empty target with an unknown requester was answered MissingParameter *)
LookupCheckOrderWitness ==
    /\ req.op = "lookup"
    /\ req.friend_name = ""
    /\ req.user_name \in Names \ DOMAIN db
    /\ MissingParameter(resp)

(* C2: a lookup returns a location only if the target is currently in the  *)
(* requester's friend set; an existing requester whose toggle is not false *)
(* and whose friend set lacks the (supplied) target gets AccessDenied (not *)
(* authorized), whether or not the target exists or has a location.        *)
LookupOnlyForFriends ==
    \A r \in Args, t \in Args :
        LookedUp(r, t) =>
            /\ Success(resp) => r \in DOMAIN db /\ t \in db[r].friends_list
            /\ (r \in DOMAIN db /\ db[r].toggle # FALSE /\ t \in Names
                  /\ t \notin db[r].friends_list)
               => AccessDeniedNotAuthorized(resp)

(* the target exists and has a location, yet is not a friend: denied *)
LookupOnlyForFriendsWitness ==
    \E r \in DOMAIN db, t \in DOMAIN db :
        /\ LookedUp(r, t)
        /\ r # t
        /\ db[r].toggle
        /\ t \notin db[r].friends_list
        /\ db[t].location \in Locations
        /\ AccessDeniedNotAuthorized(resp)

LookupFriendWithoutLocation ==
    \A r \in Args, t \in Args :
        (/\ LookedUp(r, t)
         /\ r \in DOMAIN db
         /\ db[r].toggle # FALSE
         /\ t \in db[r].friends_list
         /\ (t \notin DOMAIN db \/ db[t].location = NoneJson))
        => NoSuchUser(resp)

(* a ghost friend was looked up *)
LookupFriendWithoutLocationWitness ==
    \E r \in DOMAIN db, t \in Names \ DOMAIN db :
        /\ LookedUp(r, t)
        /\ db[r].toggle
        /\ t \in db[r].friends_list
        /\ NoSuchUser(resp)
-----------------------------------------------------------------------------
(* the step serves a request of kind op *)
Served(op) == req'.op = op

(* C5: for every non-empty name n the first addUser(n) succeeds and        *)
(* creates the user; every later addUser(n) fails with AlreadyExists and   *)
(* leaves the Directory unchanged. No step removes a user, so addUser(n)   *)
(* succeeds exactly once.                                                  *)
AddUserOnce ==
    [][ /\ DOMAIN db \subseteq DOMAIN db'
        /\ (Served("addUser") /\ req'.user_name \in Names) =>
              LET n == req'.user_name
              IN  IF n \notin DOMAIN db
                  THEN /\ Success(resp')
                       /\ DOMAIN db' = DOMAIN db \cup {n}
                       /\ \A u \in DOMAIN db : db'[u] = db[u]
                  ELSE /\ AlreadyExists(resp')
                       /\ db' = db ]_vars

(* a repeated addUser of a user that has friends, a location and sharing   *)
(* off was answered AlreadyExists                                          *)
AddUserOnceWitness ==
    /\ req.op = "addUser"
    /\ req.user_name \in DOMAIN db
    /\ AlreadyExists(resp)
    /\ db[req.user_name].friends_list # {}
    /\ db[req.user_name].location \in Locations
    /\ db[req.user_name].toggle = FALSE

(* C6: addFriend(u, f) with both names non-empty fails with NoSuchUser iff *)
(* u does not exist, whether or not f exists; when u exists it succeeds    *)
(* and f is afterwards in u's friend set, also for an unregistered f and   *)
(* for an f that already is a friend.                                      *)
AddFriendNeedsOnlyUser ==
    [][ (Served("addFriend") /\ req'.user_name \in Names /\ req'.friend_name \in Names) =>
          LET u == req'.user_name
              f == req'.friend_name
          IN  /\ NoSuchUser(resp') <=> u \notin DOMAIN db
              /\ u \in DOMAIN db =>
                     /\ Success(resp')
                     /\ u \in DOMAIN db'
                     /\ f \in db'[u].friends_list ]_vars

(* an unregistered friend was added to an existing user *)
AddFriendNeedsOnlyUserWitness ==
    /\ req.op = "addFriend"
    /\ Success(resp)
    /\ req.user_name \in DOMAIN db
    /\ req.friend_name \in Names \ DOMAIN db
    /\ req.friend_name \in db[req.user_name].friends_list

(* C7: deleteFriend(u, f) succeeds iff u exists and f is currently in u's  *)
(* friend set, and then f is no longer in it; otherwise the friend graph   *)
(* is unchanged and, for supplied names u and f, the failure is            *)
(* EdgeNotFound. Hence a second deleteFriend(u, f) right after a           *)
(* successful one fails.                                                   *)
DeleteFriendNeedsEdge ==
    [][ Served("deleteFriend") =>
          LET u == req'.user_name
              f == req'.friend_name
          IN  /\ Success(resp') <=> (u \in DOMAIN db /\ f \in db[u].friends_list)
              /\ Success(resp') =>
                     /\ db' = [db EXCEPT ![u].friends_list = @ \ {f}]
                     /\ f \notin db'[u].friends_list
              /\ ~Success(resp') =>
                     /\ db' = db
                     /\ (u \in Names /\ f \in Names) => EdgeNotFound(resp') ]_vars

(* a delete of a friend that an existing user does not have (any more)     *)
DeleteFriendNeedsEdgeWitness ==
    /\ req.op = "deleteFriend"
    /\ EdgeNotFound(resp)
    /\ req.user_name \in DOMAIN db
    /\ req.friend_name \in DOMAIN db
    /\ req.friend_name \notin db[req.user_name].friends_list

(* C8: a toggle of an existing user u changes u's sharing state to the     *)
(* opposite value and no other step changes it, so two toggles of u with   *)
(* no other toggle of u in between restore the original state; after a     *)
(* toggle from off, lookups by u are no longer denied for toggle-off.      *)
ToggleFlips ==
    [][ \A u \in DOMAIN db :
          /\ u \in DOMAIN db'
          /\ IF Served("toggle") /\ req'.user_name = u
             THEN /\ Success(resp')
                  /\ db'[u].toggle = ~db[u].toggle
                  /\ \A t \in Args :
                        AccessDeniedToggleOff(lookup_response(db', u, t))
                            <=> (db[u].toggle /\ ~Falsy(t))
             ELSE db'[u].toggle = db[u].toggle ]_vars

(* a toggle left the user at the default state: it was at least the second *)
ToggleFlipsWitness ==
    /\ req.op = "toggle"
    /\ Success(resp)
    /\ req.user_name \in DOMAIN db
    /\ db[req.user_name].toggle = DefaultToggle

(* a permitted lookup of t by r over directory d *)
Permitted(d, r, t) ==
    /\ r \in DOMAIN d
    /\ t \in DOMAIN d
    /\ d[r].toggle
    /\ t \in d[r].friends_list

(* distinct locations have distinct payloads *)
JsonDumpsInjective ==
    \A L1 \in Locations, L2 \in Locations :
        json_dumps(L1) = json_dumps(L2) => L1 = L2

(* C9: setLocation(u, L) on an existing user u stores exactly L, for GPS   *)
(* and indoor variants, replacing what was stored; no other step changes a *)
(* stored location, and a permitted lookup of u returns the last-written L *)
(* (distinct locations have distinct payloads). setLocation on a           *)
(* non-existent user fails with NoSuchUser and stores nothing.             *)
SetLocationRoundTrip ==
    [][ /\ Served("registerLocation") =>
              LET u == req'.user_name
                  L == req'.json
              IN  IF u \in DOMAIN db
                  THEN L \in Locations =>
                         /\ Success(resp')
                         /\ db' = [db EXCEPT ![u].location = L]
                         /\ Db_get_location(db', u) = L
                         /\ \A r \in Names :
                               Permitted(db', r, u) =>
                                   lookup_response(db', r, u) = Response(json_dumps(L), 200)
                  ELSE /\ NoSuchUser(resp')
                       /\ db' = db
        /\ ~Served("registerLocation") =>
              \A u \in DOMAIN db : u \in DOMAIN db' /\ db'[u].location = db[u].location
        /\ (Served("lookup") /\ Success(resp')) =>
              LET t == req'.friend_name
              IN  /\ t \in DOMAIN db'
                  /\ db'[t].location \in Locations
                  /\ resp'.body = json_dumps(db'[t].location)
        /\ JsonDumpsInjective ]_vars

(* a lookup by one user returned the indoor location last written by a     *)
(* friend, while the requester itself has a GPS location stored            *)
SetLocationRoundTripWitness ==
    \E r \in DOMAIN db, t \in DOMAIN db :
        /\ LookedUp(r, t)
        /\ r # t
        /\ Success(resp)
        /\ db[t].location = LocationPool[2]
        /\ db[r].location = LocationPool[1]
        /\ resp.body = json_dumps(LocationPool[2])

(* C10: whenever add user, add friend, delete friend, register location or *)
(* toggle returns a failure, the whole Directory is as before the request. *)
FailureLeavesDirectory ==
    [][ (/\ req'.op \in {"addUser", "addFriend", "deleteFriend",
                          "registerLocation", "toggle"}
         /\ ~Success(resp'))
        => db' = db ]_vars

(* a location update for an unknown user was rejected while the Directory  *)
(* holds users                                                             *)
FailureLeavesDirectoryWitness ==
    /\ req.op = "registerLocation"
    /\ req.json \in Locations
    /\ req.user_name \in Names \ DOMAIN db
    /\ NoSuchUser(resp)
    /\ DOMAIN db # {}
-----------------------------------------------------------------------------
(* the cause that decides lookup(r, t) over directory d, in the order of   *)
(* the checks of lookup_loc                                                *)
LookupCause(d, r, t) ==
    IF Falsy(t) THEN "missing field"
    ELSE IF r \notin DOMAIN d THEN "requester unknown"
    ELSE IF d[r].toggle = FALSE THEN "toggle off"
    ELSE IF t \notin d[r].friends_list THEN "not a friend"
    ELSE IF t \notin DOMAIN d \/ d[t].location = NoneJson THEN "target unknown"
    ELSE "success"

(* C12: every failure of lookup carries a reason that tells its cause: two *)
(* lookups that fail for different causes (missing field, requester        *)
(* unknown, toggle off, not a friend, target unknown) return different     *)
(* outcomes, and two lookups that fail for the same cause the same one.    *)
LookupFailuresDistinguishable ==
    (req.op = "lookup" /\ ~Success(resp)) =>
        LET cause == LookupCause(db, req.user_name, req.friend_name)
        IN  \A r2 \in Args, t2 \in Args :
                IF LookupCause(db, r2, t2) = cause
                THEN lookup_response(db, r2, t2) = resp
                ELSE lookup_response(db, r2, t2) # resp
(* C13: a user's sharing state changes only through a successful toggle of *)
(* that user; toggle(u) leaves every friend set, every location and every  *)
(* other toggle unchanged; toggle of a non-existent user fails with        *)
(* NoSuchUser and creates no user.                                         *)
ToggleFrame ==
    [][ /\ Served("toggle") =>
              LET u == req'.user_name
              IN  IF u \in DOMAIN db
                  THEN db' = [db EXCEPT ![u].toggle = ~@]
                  ELSE /\ db' = db
                       /\ u \in Names => NoSuchUser(resp')
        /\ ~Served("toggle") =>
              \A u \in DOMAIN db :
                  u \in DOMAIN db' /\ db'[u].toggle = db[u].toggle ]_vars

(* a user with friends and a location toggled while another user is in the *)
(* opposite sharing state                                                  *)
ToggleFrameWitness ==
    \E u \in DOMAIN db, v \in DOMAIN db :
        /\ req.op = "toggle"
        /\ req.user_name = u
        /\ Success(resp)
        /\ v # u
        /\ db[v].toggle # db[u].toggle
        /\ db[u].friends_list # {}
        /\ db[v].friends_list # {}
        /\ db[u].location \in Locations

(* C14: add user and toggle with an absent or empty user name, add friend  *)
(* and delete friend with an absent or empty user name or friend name fail *)
(* with MissingParameter and leave the Directory as it is, whatever the    *)
(* other supplied name would have caused.                                  *)
ValidationFirst ==
    [][ (\/ req'.op \in {"addUser", "toggle"} /\ Falsy(req'.user_name)
         \/ /\ req'.op \in {"addFriend", "deleteFriend"}
            /\ (Falsy(req'.user_name) \/ Falsy(req'.friend_name)))
        => /\ MissingParameter(resp')
           /\ db' = db ]_vars

(* an add friend without friend name by an unknown user: MissingParameter, *)
(* not NoSuchUser                                                          *)
ValidationFirstWitness ==
    /\ req.op = "addFriend"
    /\ req.user_name \in Names \ DOMAIN db
    /\ Falsy(req.friend_name)
    /\ MissingParameter(resp)
    /\ DOMAIN db # {}

(* C15: the friend relation is directed and users are created only by      *)
(* registration: a successful addFriend(u, f) or deleteFriend(u, f)        *)
(* changes nothing but u's friend set, so lookup(f, u) stays AccessDenied  *)
(* (not authorized) unless f has added u; adding a non-existent f does not *)
(* create f; only add user extends the user set and nothing shrinks it.    *)
DirectedFriends ==
    [][ /\ DOMAIN db \subseteq DOMAIN db'
        /\ ~Served("addUser") => DOMAIN db' = DOMAIN db
        /\ (req'.op \in {"addFriend", "deleteFriend"} /\ Success(resp')) =>
              LET u == req'.user_name
                  f == req'.friend_name
              IN  /\ u \in DOMAIN db
                  /\ \E fl \in SUBSET (Names) : db' = [db EXCEPT ![u].friends_list = fl]
                  /\ (f \in DOMAIN db /\ f # u /\ u \notin db[f].friends_list) =>
                        /\ u \notin db'[f].friends_list
                        /\ db'[f].toggle =>
                              AccessDeniedNotAuthorized(lookup_response(db', f, u)) ]_vars

(* u added the registered, sharing user f, who has not added u *)
DirectedFriendsWitness ==
    \E u \in DOMAIN db, f \in DOMAIN db :
        /\ req.op = "addFriend"
        /\ req.user_name = u
        /\ req.friend_name = f
        /\ Success(resp)
        /\ f # u
        /\ f \in db[u].friends_list
        /\ u \notin db[f].friends_list
        /\ db[f].toggle

(* C16: lookup is a pure read: whatever its outcome it leaves the user     *)
(* set, all friend sets, all locations and all toggles unchanged, so the   *)
(* same lookup repeated right away yields the same outcome.                *)
LookupIsPure ==
    [][ Served("lookup") =>
          /\ db' = db
          /\ lookup_response(db', req'.user_name, req'.friend_name) = resp' ]_vars

(* a lookup by an unknown requester was rejected and the requester is      *)
(* still unknown                                                           *)
LookupIsPureWitness ==
    /\ req.op = "lookup"
    /\ req.friend_name \in DOMAIN db
    /\ req.user_name \in Names \ DOMAIN db
    /\ NoSuchUser(resp)
-----------------------------------------------------------------------------
LookupDecisionAtomic ==
    (look.pc = "done" /\ Success(look.resp)) =>
        \E L \in look.instants : look.resp.body = json_dumps(L)
====
